---- MODULE Spec2Model ----
(***************************************************************************)
(* Energy-and-cashflow projection engine of the solar PV calculator        *)
(* (src/utils.py), as it is driven by the dashboard (src/app.py) and the   *)
(* quotation generator (src/quotation.py).                                 *)
(*                                                                         *)
(* Python floats are modelled as exact rationals [n, d] in lowest terms    *)
(* with d > 0, so that numeric equality is structural equality and the     *)
(* identities of the engine are checked exactly, not up to rounding.       *)
(***************************************************************************)
EXTENDS Integers, Sequences, FiniteSets, TLC

\* ------------------------------------------------------------------------
\* Bounds of the model
\* ------------------------------------------------------------------------
MaxYears == 3

MaxTerm == 2

MaxBattery == 3

\* ------------------------------------------------------------------------
\* Exact rational arithmetic standing in for Python float arithmetic
\* ------------------------------------------------------------------------
Abs(x) == IF x < 0 THEN -x ELSE x

RECURSIVE GCD(_, _)
GCD(a, b) == IF b = 0 THEN a ELSE GCD(b, a % b)

Norm(n, d) ==
    LET g == GCD(Abs(n), Abs(d))
        s == IF d < 0 THEN -1 ELSE 1
    IN  [n |-> (s * n) \div g, d |-> (s * d) \div g]

R(n, d) == Norm(n, d)

Zero == [n |-> 0, d |-> 1]

One == [n |-> 1, d |-> 1]

RAdd(a, b) ==
    LET g == GCD(a.d, b.d)
        l == (a.d \div g) * b.d
    IN  Norm(a.n * (l \div a.d) + b.n * (l \div b.d), l)

RNeg(a) == [n |-> -a.n, d |-> a.d]

RSub(a, b) == RAdd(a, RNeg(b))

RMul(a, b) ==
    LET g1 == GCD(Abs(a.n), b.d)
        g2 == GCD(Abs(b.n), a.d)
    IN  Norm((a.n \div g1) * (b.n \div g2), (a.d \div g2) * (b.d \div g1))

\* the caller guards b # Zero (Python raises ZeroDivisionError otherwise)
RDiv(a, b) == RMul(a, Norm(b.d, b.n))

RLe(a, b) == a.n * b.d <= b.n * a.d

RLt(a, b) == a.n * b.d < b.n * a.d

RMin(a, b) == IF RLe(a, b) THEN a ELSE b

RMax(a, b) == IF RLe(b, a) THEN a ELSE b

RECURSIVE RPow(_, _)
RPow(a, k) == IF k = 0 THEN One ELSE RMul(a, RPow(a, k - 1))

RECURSIVE RSum(_)
RSum(s) == IF s = <<>> THEN Zero ELSE RAdd(Head(s), RSum(Tail(s)))

\* ------------------------------------------------------------------------
\* Program constants
\* ------------------------------------------------------------------------
DAYS_PER_YEAR == 365

Hundred == R(100, 1)

HOURS_PER_YEAR == 8760

EV_EFFICIENCY_KWH_PER_MILE == R(3, 10)

REGION_CAPACITY_FACTOR ==
    [k \in {"South England", "Midlands", "North/Scotland"} |->
        CASE k = "South England" -> R(13, 100)
          [] k = "Midlands" -> R(12, 100)
          [] k = "North/Scotland" -> R(11, 100)]

ORIENTATION_FACTOR ==
    [k \in {"Ideal (South)", "OK (SE/SW)", "Suboptimal (E/W)", "Poor (North/shaded)"} |->
        CASE k = "Ideal (South)" -> R(100, 100)
          [] k = "OK (SE/SW)" -> R(90, 100)
          [] k = "Suboptimal (E/W)" -> R(80, 100)
          [] k = "Poor (North/shaded)" -> R(60, 100)]

MONTHLY_FRACTIONS ==
    <<R(3, 100), R(4, 100), R(7, 100), R(10, 100), R(12, 100), R(14, 100),
      R(14, 100), R(12, 100), R(10, 100), R(7, 100), R(4, 100), R(3, 100)>>

CONSUMPTION_PROFILE_GAS ==
    <<R(90, 1000), R(85, 1000), R(80, 1000), R(75, 1000), R(70, 1000), R(70, 1000),
      R(70, 1000), R(70, 1000), R(75, 1000), R(80, 1000), R(85, 1000), R(90, 1000)>>

CONSUMPTION_PROFILE_ELECTRIC ==
    <<R(14, 100), R(13, 100), R(11, 100), R(7, 100), R(5, 100), R(4, 100),
      R(4, 100), R(4, 100), R(6, 100), R(9, 100), R(11, 100), R(12, 100)>>

\* the "description" entries are not read by the engine and are left out;
\* the Gas/Oil entry has no "base_usage_multiplier" key
HEATING_TYPES ==
    [k \in {"Gas/Oil boiler", "Heat pump", "Electric resistive"} |->
        CASE k = "Gas/Oil boiler" -> [profile |-> CONSUMPTION_PROFILE_GAS]
          [] k = "Heat pump" -> [profile |-> CONSUMPTION_PROFILE_ELECTRIC,
                                 base_usage_multiplier |-> R(15, 10)]
          [] k = "Electric resistive" -> [profile |-> CONSUMPTION_PROFILE_ELECTRIC,
                                          base_usage_multiplier |-> R(25, 10)]]

\* ------------------------------------------------------------------------
\* Generation and demand (utils.py lines 15-80)
\* ------------------------------------------------------------------------
\* TRUE when the dict lookups of line 21 raise KeyError
generation_raises(location, orientation) ==
    \/ location \notin DOMAIN REGION_CAPACITY_FACTOR
    \/ orientation \notin DOMAIN ORIENTATION_FACTOR

\* variant: the weather adjustment is left out of the realistic output
calculate_generation_peak_output(kWp, location, orientation) ==
    LET e_theoretical == RMul(kWp, R(HOURS_PER_YEAR, 1))
        cf_effective == RMul(REGION_CAPACITY_FACTOR[location],
                             ORIENTATION_FACTOR[orientation])
        e_realistic == RMul(kWp, R(HOURS_PER_YEAR, 1))
        kwh_per_kwp == IF RLt(Zero, kWp) THEN RDiv(e_realistic, kWp) ELSE Zero
    IN  [theoretical |-> e_theoretical,
         realistic |-> e_realistic,
         capacity_factor |-> cf_effective,
         kwh_per_kwp |-> kwh_per_kwp]

\* lines 15-30
calculate_generation(kWp, location, orientation) ==
    LET e_theoretical == RMul(kWp, R(HOURS_PER_YEAR, 1))
        cf_effective == RMul(REGION_CAPACITY_FACTOR[location],
                             ORIENTATION_FACTOR[orientation])
        e_realistic == RMul(RMul(kWp, R(HOURS_PER_YEAR, 1)), cf_effective)
        kwh_per_kwp == IF RLt(Zero, kWp) THEN RDiv(e_realistic, kWp) ELSE Zero
    IN  [theoretical |-> e_theoretical,
         realistic |-> e_realistic,
         capacity_factor |-> cf_effective,
         kwh_per_kwp |-> kwh_per_kwp]

\* lines 33-35
calculate_monthly_generation(e_realistic) ==
    [i \in 1..12 |-> RMul(e_realistic, MONTHLY_FRACTIONS[i])]

\* dict.get(key, default) on HEATING_TYPES, then .get(field, default) on
\* the entry: an unknown heating type yields the empty dict
heating_entry_get(heating_type, field, default) ==
    IF heating_type \in DOMAIN HEATING_TYPES
       /\ field \in DOMAIN HEATING_TYPES[heating_type]
    THEN HEATING_TYPES[heating_type][field]
    ELSE default

\* variant: the flat profile is used for every heating type
calculate_monthly_consumption_flat(d_annual, heating_type) ==
    [i \in 1..12 |-> RMul(d_annual, CONSUMPTION_PROFILE_GAS[i])]

\* lines 38-44
calculate_monthly_consumption(d_annual, heating_type) ==
    LET profile == heating_entry_get(heating_type, "profile", CONSUMPTION_PROFILE_GAS)
    IN  [i \in 1..12 |-> RMul(d_annual, profile[i])]

\* lines 47-68
calculate_ev_consumption(daily_miles, home_charging_share) ==
    LET daily_kwh_total == RMul(daily_miles, EV_EFFICIENCY_KWH_PER_MILE)
        daily_kwh_home == RMul(daily_kwh_total, home_charging_share)
    IN  [daily_kwh_total |-> daily_kwh_total,
         daily_kwh_home |-> daily_kwh_home,
         annual_kwh |-> RMul(daily_kwh_home, R(DAYS_PER_YEAR, 1))]

\* lines 71-80
adjust_consumption_for_heating(base_usage, heating_type) ==
    LET multiplier == heating_entry_get(heating_type, "base_usage_multiplier", One)
    IN  RMul(base_usage, multiplier)

\* variant: the export income is left out of the net saving
calculate_annual_financials_no_export(d_annual, grid_import, e_export, grid_price_p, seg_price_p) ==
    LET p_grid == RDiv(grid_price_p, Hundred)
        p_export == RDiv(seg_price_p, Hundred)
        cost_baseline == RMul(d_annual, p_grid)
        cost_with_pv == RMul(grid_import, p_grid)
        income_export == RMul(e_export, p_export)
    IN  [cost_baseline |-> cost_baseline,
         cost_with_pv |-> cost_with_pv,
         income_export |-> income_export,
         net_saving |-> RSub(cost_baseline, cost_with_pv)]

\* lines 156-177
calculate_annual_financials(d_annual, grid_import, e_export, grid_price_p, seg_price_p) ==
    LET p_grid == RDiv(grid_price_p, Hundred)
        p_export == RDiv(seg_price_p, Hundred)
        cost_baseline == RMul(d_annual, p_grid)
        cost_with_pv == RMul(grid_import, p_grid)
        income_export == RMul(e_export, p_export)
    IN  [cost_baseline |-> cost_baseline,
         cost_with_pv |-> cost_with_pv,
         income_export |-> income_export,
         net_saving |-> RAdd(RSub(cost_baseline, cost_with_pv), income_export)]

\* ------------------------------------------------------------------------
\* calculate_self_consumption, split along the blocks of the source
\* ------------------------------------------------------------------------
\* variant: the grid import without battery is taken from the household
\* demand alone, leaving the EV demand out
no_battery_allocation_household_only(e_realistic, d_annual, daytime_share, ev_annual_kwh) ==
    LET total_demand == RAdd(d_annual, ev_annual_kwh)
        d_day == RMul(d_annual, daytime_share)
        f_direct == IF RLt(Zero, e_realistic)
                    THEN RMin(RDiv(RMul(R(8, 10), d_day), e_realistic), R(8, 10))
                    ELSE Zero
        e_self_direct == RMul(e_realistic, f_direct)
    IN  [total_demand |-> total_demand,
         e_self_direct |-> e_self_direct,
         e_export_no_batt |-> RMax(Zero, RSub(e_realistic, e_self_direct)),
         grid_import_no_batt |-> RMax(Zero, RSub(d_annual, e_self_direct))]

\* lines 102-110: total demand and the allocation without battery
no_battery_allocation(e_realistic, d_annual, daytime_share, ev_annual_kwh) ==
    LET total_demand == RAdd(d_annual, ev_annual_kwh)
        d_day == RMul(d_annual, daytime_share)
        f_direct == IF RLt(Zero, e_realistic)
                    THEN RMin(RDiv(RMul(R(8, 10), d_day), e_realistic), R(8, 10))
                    ELSE Zero
        e_self_direct == RMul(e_realistic, f_direct)
    IN  [total_demand |-> total_demand,
         e_self_direct |-> e_self_direct,
         e_export_no_batt |-> RMax(Zero, RSub(e_realistic, e_self_direct)),
         grid_import_no_batt |-> RMax(Zero, RSub(total_demand, e_self_direct))]

\* variant: the battery is filled every day whatever the surplus
battery_dispatch_always_full(e_realistic, e_self_direct, battery_kwh) ==
    LET e_surplus_daily ==
            RMax(Zero, RDiv(RSub(e_realistic, e_self_direct), R(DAYS_PER_YEAR, 1)))
    IN  [e_surplus_daily |-> e_surplus_daily,
         e_batt_annual |-> RMul(battery_kwh, R(DAYS_PER_YEAR, 1))]

\* lines 112-116: one charge/discharge cycle per day
battery_dispatch(e_realistic, e_self_direct, battery_kwh) ==
    LET e_surplus_daily ==
            RMax(Zero, RDiv(RSub(e_realistic, e_self_direct), R(DAYS_PER_YEAR, 1)))
        b_daily_max == battery_kwh
        e_batt_daily == RMin(e_surplus_daily, b_daily_max)
    IN  [e_surplus_daily |-> e_surplus_daily,
         e_batt_annual |-> RMul(e_batt_daily, R(DAYS_PER_YEAR, 1))]

\* variant: the EV draws on the whole battery energy, not on what the
\* household leaves
battery_allocation_ev_unlimited(e_realistic, d_annual, e_self_direct, e_batt_annual, ev_annual_kwh, ev_solar_share) ==
    LET d_remaining_household == RMax(Zero, RSub(d_annual, e_self_direct))
        e_batt_to_house == RMin(e_batt_annual, d_remaining_household)
        e_batt_remaining == RSub(e_batt_annual, e_batt_to_house)
        ev_from_battery == RMin(e_batt_annual, RMul(ev_annual_kwh, ev_solar_share))
        ev_direct_solar ==
            RMin(RMul(RMax(Zero, RSub(RSub(e_realistic, e_self_direct), e_batt_annual)),
                      R(3, 10)),
                 RMul(ev_annual_kwh, R(2, 10)))
    IN  [d_remaining_household |-> d_remaining_household,
         e_batt_to_house |-> e_batt_to_house,
         ev_from_battery |-> ev_from_battery,
         ev_direct_solar |-> ev_direct_solar]

\* lines 118-130: household first, then EV from battery, then EV direct solar
battery_allocation(e_realistic, d_annual, e_self_direct, e_batt_annual, ev_annual_kwh, ev_solar_share) ==
    LET d_remaining_household == RMax(Zero, RSub(d_annual, e_self_direct))
        e_batt_to_house == RMin(e_batt_annual, d_remaining_household)
        e_batt_remaining == RSub(e_batt_annual, e_batt_to_house)
        ev_from_battery == RMin(e_batt_remaining, RMul(ev_annual_kwh, ev_solar_share))
        ev_direct_solar ==
            RMin(RMul(RMax(Zero, RSub(RSub(e_realistic, e_self_direct), e_batt_annual)),
                      R(3, 10)),
                 RMul(ev_annual_kwh, R(2, 10)))
    IN  [d_remaining_household |-> d_remaining_household,
         e_batt_to_house |-> e_batt_to_house,
         ev_from_battery |-> ev_from_battery,
         ev_direct_solar |-> ev_direct_solar]

\* variant: the export with battery is reduced by the household's battery
\* share only
battery_totals_export_household_only(e_realistic, total_demand, e_self_direct, alloc, ev_annual_kwh) ==
    LET e_self_batt == RAdd(RAdd(alloc.e_batt_to_house, alloc.ev_from_battery),
                            alloc.ev_direct_solar)
        total_solar_to_ev == RAdd(alloc.ev_from_battery, alloc.ev_direct_solar)
    IN  [e_self_batt |-> e_self_batt,
         total_solar_to_ev |-> total_solar_to_ev,
         e_export_batt
         |-> RMax(Zero, RSub(RSub(e_realistic, e_self_direct), alloc.e_batt_to_house)),
         grid_import_with_batt
         |-> RMax(Zero, RSub(RSub(total_demand, e_self_direct), e_self_batt)),
         ev_grid_import |-> RMax(Zero, RSub(ev_annual_kwh, total_solar_to_ev))]

\* variant: the grid import with battery is not floored at zero
battery_totals_unclamped(e_realistic, total_demand, e_self_direct, alloc, ev_annual_kwh) ==
    LET e_self_batt == RAdd(RAdd(alloc.e_batt_to_house, alloc.ev_from_battery),
                            alloc.ev_direct_solar)
        total_solar_to_ev == RAdd(alloc.ev_from_battery, alloc.ev_direct_solar)
    IN  [e_self_batt |-> e_self_batt,
         total_solar_to_ev |-> total_solar_to_ev,
         e_export_batt
         |-> RMax(Zero, RSub(RSub(e_realistic, e_self_direct), e_self_batt)),
         grid_import_with_batt
         |-> RSub(RSub(total_demand, e_self_direct), e_self_batt),
         ev_grid_import |-> RMax(Zero, RSub(ev_annual_kwh, total_solar_to_ev))]

\* lines 132-140: totals with battery and the EV metrics
battery_totals(e_realistic, total_demand, e_self_direct, alloc, ev_annual_kwh) ==
    LET e_self_batt == RAdd(RAdd(alloc.e_batt_to_house, alloc.ev_from_battery),
                            alloc.ev_direct_solar)
        total_solar_to_ev == RAdd(alloc.ev_from_battery, alloc.ev_direct_solar)
    IN  [e_self_batt |-> e_self_batt,
         total_solar_to_ev |-> total_solar_to_ev,
         e_export_batt
         |-> RMax(Zero, RSub(RSub(e_realistic, e_self_direct), e_self_batt)),
         grid_import_with_batt
         |-> RMax(Zero, RSub(RSub(total_demand, e_self_direct), e_self_batt)),
         ev_grid_import |-> RMax(Zero, RSub(ev_annual_kwh, total_solar_to_ev))]

\* lines 83-153: the function and the dict it returns
calculate_self_consumption(e_realistic, d_annual, daytime_share, battery_kwh, ev_annual_kwh, ev_solar_share) ==
    LET nb == no_battery_allocation(e_realistic, d_annual, daytime_share,
                                    ev_annual_kwh)
        disp == battery_dispatch(e_realistic, nb.e_self_direct, battery_kwh)
        alloc == battery_allocation(e_realistic, d_annual, nb.e_self_direct,
                                    disp.e_batt_annual, ev_annual_kwh,
                                    ev_solar_share)
        tot == battery_totals(e_realistic, nb.total_demand, nb.e_self_direct,
                              alloc, ev_annual_kwh)
    IN  [e_self_direct |-> nb.e_self_direct,
         e_export_no_batt |-> nb.e_export_no_batt,
         grid_import_no_batt |-> nb.grid_import_no_batt,
         e_self_batt |-> tot.e_self_batt,
         e_export_batt |-> tot.e_export_batt,
         grid_import_with_batt |-> tot.grid_import_with_batt,
         ev_annual_kwh |-> ev_annual_kwh,
         ev_from_solar |-> tot.total_solar_to_ev,
         ev_from_grid |-> tot.ev_grid_import,
         total_demand |-> nb.total_demand]

\* ------------------------------------------------------------------------
\* calculate_loan_payment (lines 180-185)
\* ------------------------------------------------------------------------
\* the denominator (1 + r) ** term_years - 1 of the amortization formula
loan_denominator(annual_rate, term_years) ==
    RSub(RPow(RAdd(One, RDiv(annual_rate, Hundred)), term_years), One)

\* variant: the zero-rate division principal / term_years is not guarded
loan_payment_raises_unguarded(annual_rate, term_years) ==
    IF annual_rate = Zero THEN term_years = 0
    ELSE loan_denominator(annual_rate, term_years) = Zero

\* TRUE when the call raises ZeroDivisionError
loan_payment_raises(annual_rate, term_years) ==
    annual_rate # Zero /\ loan_denominator(annual_rate, term_years) = Zero

\* variant: simple interest on the principal spread over the term
calculate_loan_payment_simple_interest(principal, annual_rate, term_years) ==
    IF annual_rate = Zero
    THEN IF term_years > 0 THEN RDiv(principal, R(term_years, 1)) ELSE Zero
    ELSE LET r == RDiv(annual_rate, Hundred)
         IN  RDiv(RMul(principal, RAdd(One, RMul(r, R(term_years, 1)))),
                  R(term_years, 1))

\* variant: a zero-rate loan is charged in full every year
calculate_loan_payment_undivided(principal, annual_rate, term_years) ==
    IF annual_rate = Zero
    THEN IF term_years > 0 THEN principal ELSE Zero
    ELSE LET r == RDiv(annual_rate, Hundred)
         IN  RDiv(RMul(principal, RMul(r, RPow(RAdd(One, r), term_years))),
                  loan_denominator(annual_rate, term_years))

calculate_loan_payment(principal, annual_rate, term_years) ==
    IF annual_rate = Zero
    THEN IF term_years > 0 THEN RDiv(principal, R(term_years, 1)) ELSE Zero
    ELSE LET r == RDiv(annual_rate, Hundred)
         IN  RDiv(RMul(principal, RMul(r, RPow(RAdd(One, r), term_years))),
                  loan_denominator(annual_rate, term_years))

\* variant: the balance without battery is taken whatever include_battery
select_balance_battery_off(a, self_consumption) ==
    [grid_import |-> self_consumption.grid_import_no_batt,
     e_export |-> self_consumption.e_export_no_batt,
     install_cost |-> IF a.include_battery THEN RAdd(a.pv_cost, a.battery_cost)
                      ELSE a.pv_cost]

\* ------------------------------------------------------------------------
\* calculate_multi_year_cashflow, split along the blocks of the source
\* ------------------------------------------------------------------------
\* lines 219-228: energy balance and install cost selected by include_battery
select_balance(a, self_consumption) ==
    IF a.include_battery
    THEN [grid_import |-> self_consumption.grid_import_with_batt,
          e_export |-> self_consumption.e_export_batt,
          install_cost |-> RAdd(a.pv_cost, a.battery_cost)]
    ELSE [grid_import |-> self_consumption.grid_import_no_batt,
          e_export |-> self_consumption.e_export_no_batt,
          install_cost |-> a.pv_cost]

\* variant: the interest is the sum of the payments, the principal not
\* deducted
financing_terms_gross_interest(a, install_cost) ==
    LET deposit_amount == IF a.finance_mode
                          THEN RMul(install_cost, RDiv(a.deposit_pct, Hundred))
                          ELSE Zero
        loan_amount == IF a.finance_mode THEN RSub(install_cost, deposit_amount)
                       ELSE Zero
        loan_branch == a.finance_mode /\ RLt(Zero, loan_amount)
        lease_branch == ~loan_branch /\ a.lease_mode /\ RLt(Zero, a.monthly_lease)
        annual_loan_payment ==
            IF loan_branch
            THEN calculate_loan_payment(loan_amount, a.loan_rate, a.loan_term)
            ELSE Zero
        annual_lease_payment ==
            IF lease_branch THEN RMul(a.monthly_lease, R(12, 1)) ELSE Zero
    IN  [deposit_amount |-> deposit_amount,
         loan_amount |-> loan_amount,
         annual_loan_payment |-> annual_loan_payment,
         annual_lease_payment |-> annual_lease_payment,
         total_interest |->
            IF loan_branch
            THEN RMul(annual_loan_payment, R(a.loan_term, 1))
            ELSE Zero,
         total_lease_cost |->
            IF lease_branch
            THEN RMul(annual_lease_payment, R(a.lease_term, 1))
            ELSE Zero]

\* lines 230-245: deposit, loan amount and the annual payments
financing_terms(a, install_cost) ==
    LET deposit_amount == IF a.finance_mode
                          THEN RMul(install_cost, RDiv(a.deposit_pct, Hundred))
                          ELSE Zero
        loan_amount == IF a.finance_mode THEN RSub(install_cost, deposit_amount)
                       ELSE Zero
        loan_branch == a.finance_mode /\ RLt(Zero, loan_amount)
        lease_branch == ~loan_branch /\ a.lease_mode /\ RLt(Zero, a.monthly_lease)
        annual_loan_payment ==
            IF loan_branch
            THEN calculate_loan_payment(loan_amount, a.loan_rate, a.loan_term)
            ELSE Zero
        annual_lease_payment ==
            IF lease_branch THEN RMul(a.monthly_lease, R(12, 1)) ELSE Zero
    IN  [deposit_amount |-> deposit_amount,
         loan_amount |-> loan_amount,
         annual_loan_payment |-> annual_loan_payment,
         annual_lease_payment |-> annual_lease_payment,
         total_interest |->
            IF loan_branch
            THEN RSub(RMul(annual_loan_payment, R(a.loan_term, 1)), loan_amount)
            ELSE Zero,
         total_lease_cost |->
            IF lease_branch
            THEN RMul(annual_lease_payment, R(a.lease_term, 1))
            ELSE Zero]

\* TRUE when line 241 raises ZeroDivisionError
financing_raises(a, install_cost) ==
    /\ a.finance_mode
    /\ RLt(Zero, RSub(install_cost, RMul(install_cost, RDiv(a.deposit_pct, Hundred))))
    /\ loan_payment_raises(a.loan_rate, a.loan_term)

\* variant: a loan starts from the full install cost, as a purchase does
starting_cashflow_full_cost(a, install_cost, deposit_amount) ==
    IF a.lease_mode /\ ~a.finance_mode THEN Zero ELSE RNeg(install_cost)

\* lines 252-258: starting cashflow position
starting_cashflow(a, install_cost, deposit_amount) ==
    IF a.finance_mode THEN RNeg(deposit_amount)
    ELSE IF a.lease_mode THEN Zero
    ELSE RNeg(install_cost)

\* variant: the import price is escalated to the end of the horizon in
\* every year
net_saving_t_end_of_horizon(a, d_annual, grid_import, e_export, t) ==
    LET p_export == RDiv(a.seg_price_p, Hundred)
        p_grid_t == RMul(RDiv(a.grid_price_p, Hundred),
                         RPow(RAdd(One, RDiv(a.annual_growth, Hundred)), a.years))
        cost_baseline_t == RMul(d_annual, p_grid_t)
        cost_with_pv_t == RMul(grid_import, p_grid_t)
        income_export_t == RMul(e_export, p_export)
    IN  RAdd(RSub(cost_baseline_t, cost_with_pv_t), income_export_t)

\* lines 261-267: saving of year t at the escalated import price
net_saving_t(a, d_annual, grid_import, e_export, t) ==
    LET p_export == RDiv(a.seg_price_p, Hundred)
        p_grid_t == RMul(RDiv(a.grid_price_p, Hundred),
                         RPow(RAdd(One, RDiv(a.annual_growth, Hundred)), t))
        cost_baseline_t == RMul(d_annual, p_grid_t)
        cost_with_pv_t == RMul(grid_import, p_grid_t)
        income_export_t == RMul(e_export, p_export)
    IN  RAdd(RSub(cost_baseline_t, cost_with_pv_t), income_export_t)

\* variant: the payment is subtracted in the years after the term
net_benefit_t_after_term(a, saving, annual_loan_payment, annual_lease_payment, t) ==
    IF a.finance_mode /\ t > a.loan_term
    THEN RSub(saving, annual_loan_payment)
    ELSE IF a.lease_mode /\ t > a.lease_term
    THEN RSub(saving, annual_lease_payment)
    ELSE saving

\* variant: the payment of the last year of the term is not subtracted
net_benefit_t_short_term(a, saving, annual_loan_payment, annual_lease_payment, t) ==
    IF a.finance_mode /\ t < a.loan_term
    THEN RSub(saving, annual_loan_payment)
    ELSE IF a.lease_mode /\ t < a.lease_term
    THEN RSub(saving, annual_lease_payment)
    ELSE saving

\* lines 271-277: loan/lease payment subtracted if within term
net_benefit_t(a, saving, annual_loan_payment, annual_lease_payment, t) ==
    IF a.finance_mode /\ t <= a.loan_term
    THEN RSub(saving, annual_loan_payment)
    ELSE IF a.lease_mode /\ t <= a.lease_term
    THEN RSub(saving, annual_lease_payment)
    ELSE saving

\* line 284: discounted cashflow of year t
discounted_cf(a, net_benefit, t) ==
    RDiv(net_benefit, RPow(RAdd(One, RDiv(a.discount_rate, Hundred)), t))

\* lines 287-292: payback period; <<>> is None, <<p>> is the year p
RECURSIVE payback_from(_, _)
payback_from(cumulative_cashflow, i) ==
    IF i > Len(cumulative_cashflow) THEN <<>>
    ELSE IF RLe(Zero, cumulative_cashflow[i]) THEN <<i>>
    ELSE payback_from(cumulative_cashflow, i + 1)

\* variant: the loop has no break, the last year with a non-negative
\* cumulative cashflow is reported
payback_period_no_break(cumulative_cashflow) ==
    LET hits == {i \in 1..Len(cumulative_cashflow) :
                    RLe(Zero, cumulative_cashflow[i])}
    IN  IF hits = {} THEN <<>>
        ELSE <<CHOOSE i \in hits : \A j \in hits : j <= i>>

payback_period(cumulative_cashflow) == payback_from(cumulative_cashflow, 1)

\* variant: the deposit is left out of the NPV of a loan
calculate_npv_no_deposit(a, deposit_amount, discounted_cashflow) ==
    RSum(discounted_cashflow)

\* lines 294-300: net present value
calculate_npv(a, deposit_amount, discounted_cashflow) ==
    IF a.finance_mode THEN RAdd(RNeg(deposit_amount), RSum(discounted_cashflow))
    ELSE IF a.lease_mode THEN RSum(discounted_cashflow)
    ELSE RSum(discounted_cashflow)

\* lines 302-317: the dict returned by calculate_multi_year_cashflow
cashflow_result(a, l) ==
    [install_cost |-> l.install_cost,
     annual_savings |-> l.annual_savings,
     annual_net_benefit |-> l.annual_net_benefit,
     cumulative_cashflow |-> l.cumulative_cashflow,
     payback_years |-> payback_period(l.cumulative_cashflow),
     npv |-> calculate_npv(a, l.deposit_amount, l.discounted_cashflow),
     annual_loan_payment |-> l.annual_loan_payment,
     annual_lease_payment |-> l.annual_lease_payment,
     total_interest |-> l.total_interest,
     total_lease_cost |-> l.total_lease_cost,
     loan_term |-> IF a.finance_mode THEN a.loan_term ELSE 0,
     lease_term |-> IF a.lease_mode THEN a.lease_term ELSE 0,
     deposit_amount |-> l.deposit_amount,
     loan_amount |-> l.loan_amount]

\* lines 219-258: the locals of the call when the loop is entered
cashflow_locals(a, self_consumption) ==
    LET sel == select_balance(a, self_consumption)
        fin == financing_terms(a, sel.install_cost)
    IN  sel @@ fin @@
        [d_annual |-> a.d_annual,
         annual_savings |-> <<>>,
         annual_net_benefit |-> <<>>,
         cumulative_cashflow |-> <<>>,
         discounted_cashflow |-> <<>>,
         cum_cf |-> starting_cashflow(a, sel.install_cost, fin.deposit_amount),
         t |-> 1]

\* lines 260-285: the locals after the iteration of year l.t
cashflow_year(a, l) ==
    LET saving == net_saving_t(a, l.d_annual, l.grid_import, l.e_export, l.t)
        benefit == net_benefit_t(a, saving, l.annual_loan_payment,
                                 l.annual_lease_payment, l.t)
        cum == RAdd(l.cum_cf, benefit)
    IN  [l EXCEPT !.annual_savings = Append(@, saving),
                  !.annual_net_benefit = Append(@, benefit),
                  !.cum_cf = cum,
                  !.cumulative_cashflow = Append(@, cum),
                  !.discounted_cashflow = Append(@, discounted_cf(a, benefit, l.t)),
                  !.t = @ + 1]

\* lines 260-285: the loop run to the end of the horizon
RECURSIVE cashflow_loop(_, _)
cashflow_loop(a, l) ==
    IF l.t > a.years THEN l ELSE cashflow_loop(a, cashflow_year(a, l))

\* lines 188-317: the call as a whole, for arguments that do not raise;
\* a.d_annual is the demand passed to the call
calculate_multi_year_cashflow(a, self_consumption) ==
    cashflow_result(a, cashflow_loop(a, cashflow_locals(a, self_consumption)))

\* ------------------------------------------------------------------------
\* The quotation document (quotation.py)
\* ------------------------------------------------------------------------
\* quotation.py 269-302: the parameters of generate_quotation_pdf
QuotationParameters ==
    {"customer_name", "customer_address", "location", "orientation", "kwp",
     "battery_kwh", "pv_cost", "battery_cost", "grid_price_p", "seg_price_p",
     "annual_growth", "heating_type", "d_annual_base", "daytime_share",
     "has_ev", "daily_miles", "home_charging_pct", "finance_mode",
     "deposit_pct", "loan_term", "loan_rate", "years", "discount_rate",
     "company_name", "quote_ref"}

\* quotation.py 270-288: the parameters without a default
QuotationRequired ==
    {"customer_name", "customer_address", "location", "orientation", "kwp",
     "battery_kwh", "pv_cost", "battery_cost", "grid_price_p", "seg_price_p",
     "annual_growth", "heating_type", "d_annual_base", "daytime_share",
     "has_ev"}

\* quotation.py 289-298: the defaults of the optional parameters the
\* calculations read
QuotationDefaults ==
    [daily_miles |-> R(30, 1), home_charging_pct |-> R(8, 10),
     finance_mode |-> FALSE, deposit_pct |-> R(25, 1), loan_term |-> 10,
     loan_rate |-> R(5, 1), years |-> 25, discount_rate |-> R(3, 1)]

\* app.py 1293-1322: the keywords of the dashboard's call
DashboardKeywords ==
    QuotationParameters \cup {"lease_mode", "lease_term", "monthly_lease"}

\* quotation.py 702-765: the keywords of the call of
\* generate_sample_quotations for a scenario
SampleKeywords(scenario) ==
    {"customer_name", "customer_address", "location", "orientation", "kwp",
     "battery_kwh", "pv_cost", "battery_cost", "grid_price_p", "seg_price_p",
     "annual_growth", "heating_type", "d_annual_base", "daytime_share",
     "years", "discount_rate", "company_name", "finance_mode", "has_ev"}
    \cup (IF scenario.has_ev THEN {"daily_miles", "home_charging_pct"} ELSE {})
    \cup (IF scenario.finance_mode THEN {"deposit_pct", "loan_term", "loan_rate"}
          ELSE {})

\* TRUE when the call raises TypeError: a keyword that is no parameter, or
\* a parameter without default that is not passed
quotation_call_raises(keywords) ==
    \/ ~(keywords \subseteq QuotationParameters)
    \/ ~(QuotationRequired \subseteq keywords)

\* quotation.py 648: the consumption profile of the seasonal chart
quotation_consumption_profile(heating_type) ==
    heating_entry_get(heating_type, "profile", MONTHLY_FRACTIONS)

\* quotation.py 309-318: the annual demand of the household and of the EV
quotation_demand(q) ==
    [d_annual |-> adjust_consumption_for_heating(q.d_annual_base, q.heating_type),
     ev_annual_kwh |->
        IF q.has_ev
        THEN calculate_ev_consumption(q.daily_miles, q.home_charging_pct).annual_kwh
        ELSE Zero]

\* quotation.py 335-343: the arguments of the cashflow call; the lease
\* parameters are not passed and take their defaults
quotation_cashflow_args(q, total_demand) ==
    [pv_cost |-> q.pv_cost, battery_cost |-> q.battery_cost,
     d_annual |-> total_demand,
     grid_price_p |-> q.grid_price_p, seg_price_p |-> q.seg_price_p,
     annual_growth |-> q.annual_growth, years |-> q.years,
     discount_rate |-> q.discount_rate,
     include_battery |-> RLt(Zero, q.battery_kwh),
     finance_mode |-> q.finance_mode, loan_term |-> q.loan_term,
     loan_rate |-> q.loan_rate, deposit_pct |-> q.deposit_pct,
     lease_mode |-> FALSE, lease_term |-> 10, monthly_lease |-> Zero]

\* quotation.py 325-343 and 648: financials, projection and seasonal
\* profile computed from the energy balance
quotation_figures(q, a, d_annual, generation, self_consumption) ==
    IF financing_raises(a, select_balance(a, self_consumption).install_cost)
    THEN [outcome |-> "zero_division"]
    ELSE [outcome |-> "pdf",
          d_annual |-> d_annual,
          generation |-> generation,
          self_consumption |-> self_consumption,
          financials |->
              calculate_annual_financials(
                  self_consumption.total_demand,
                  IF a.include_battery THEN self_consumption.grid_import_with_batt
                  ELSE self_consumption.grid_import_no_batt,
                  IF a.include_battery THEN self_consumption.e_export_batt
                  ELSE self_consumption.e_export_no_batt,
                  q.grid_price_p, q.seg_price_p),
          cashflow_args |-> a,
          cashflow |-> calculate_multi_year_cashflow(a, self_consumption),
          consumption_profile |-> quotation_consumption_profile(q.heating_type)]

\* quotation.py 320-323: the energy balance, at the default EV solar share
quotation_balance(q, demand, generation) ==
    calculate_self_consumption(generation.realistic, demand.d_annual,
                               q.daytime_share, q.battery_kwh,
                               demand.ev_annual_kwh, R(3, 10))

\* quotation.py 309-343: the calculations from the energy balance on
quotation_from_balance(q, demand, generation, self_consumption) ==
    quotation_figures(q, quotation_cashflow_args(q, self_consumption.total_demand),
                      demand.d_annual, generation, self_consumption)

\* quotation.py 309-343: the calculations from the generation on
quotation_from_generation(q, demand, generation) ==
    quotation_from_balance(q, demand, generation,
                           quotation_balance(q, demand, generation))

\* quotation.py 309-343 and 648: the calculations of generate_quotation_pdf
\* for the arguments q
generate_quotation_pdf(q) ==
    quotation_from_generation(q, quotation_demand(q),
                              calculate_generation(q.kwp, q.location, q.orientation))

\* the call with the given keywords: the arguments not passed take their
\* defaults
quotation_call(keywords, passed) ==
    IF quotation_call_raises(keywords) THEN [outcome |-> "type_error"]
    ELSE generate_quotation_pdf(
             [k \in (DOMAIN passed \cap keywords) |-> passed[k]] @@ QuotationDefaults)

\* ------------------------------------------------------------------------
\* The dashboard's summary (app.py 780-1153): the fields it looks up in the
\* dicts returned by the engine
\* ------------------------------------------------------------------------
lookups(dict, keys) == {[dict |-> dict, key |-> k] : k \in keys}

\* app.py 780-907: the lookups made before the self-consumption rate
summary_lookups_before_rate(a) ==
    lookups("self_consumption",
            {"total_demand", "grid_import_no_batt", "e_export_no_batt",
             "grid_import_with_batt", "e_export_batt"})
    \cup (IF ~a.lease_mode /\ a.finance_mode
          THEN lookups("cashflow",
                       {"deposit_amount", "annual_loan_payment", "total_interest"})
          ELSE {})
    \cup lookups("cashflow", {"payback_years", "npv"})

\* app.py 909-915: the field divided by generation['realistic']
summary_rate_lookup(a) ==
    IF RLt(Zero, a.battery_kwh)
    THEN [dict |-> "self_consumption", key |-> "e_self_total_with_batt"]
    ELSE [dict |-> "self_consumption", key |-> "e_self_direct"]

\* app.py 934-1151: the lookups made after the self-consumption rate
summary_lookups_after_rate(a) ==
    (IF RLt(Zero, a.ev_annual_kwh) /\ RLt(Zero, a.battery_kwh)
     THEN lookups("self_consumption", {"ev_from_solar", "ev_from_grid"})
     ELSE {})
    \cup (IF a.finance_mode
          THEN lookups("cashflow", {"deposit_amount", "loan_amount",
                                    "annual_loan_payment", "total_interest"})
          ELSE IF a.lease_mode
          THEN lookups("cashflow", {"annual_lease_payment", "total_lease_cost",
                                    "annual_savings"})
          ELSE {})
    \cup (IF RLt(Zero, a.battery_kwh)
          THEN lookups("self_consumption",
                       {"e_self_direct", "e_self_batt", "e_export_batt",
                        "grid_import_with_batt"})
          ELSE lookups("self_consumption",
                       {"e_self_direct", "e_export_no_batt", "grid_import_no_batt"}))
    \cup lookups("cashflow", {"cumulative_cashflow"})
    \cup lookups("self_consumption",
                 {"e_self_direct", "e_export_no_batt", "grid_import_no_batt",
                  "e_self_batt", "e_export_batt", "grid_import_with_batt"})
    \cup lookups("cashflow", {"payback_years", "npv"})

\* every lookup the summary makes for the configuration
summary_lookups(a) ==
    summary_lookups_before_rate(a) \cup {summary_rate_lookup(a)}
    \cup summary_lookups_after_rate(a)

\* dict[key] does not raise KeyError
key_present(lookup, self_consumption, cashflow) ==
    IF lookup.dict = "self_consumption" THEN lookup.key \in DOMAIN self_consumption
    ELSE lookup.key \in DOMAIN cashflow

\* app.py 780-1153 in the order of the script: the first lookup of a
\* missing key, or the division by a zero generation, ends the rendering
render_summary(a, self_consumption, cashflow) ==
    IF \E r \in summary_lookups_before_rate(a) :
          ~key_present(r, self_consumption, cashflow)
    THEN "summary_key_error"
    ELSE IF ~key_present(summary_rate_lookup(a), self_consumption, cashflow)
    THEN "summary_key_error"
    ELSE IF a.e_realistic = Zero THEN "summary_zero_division"
    ELSE IF \E r \in summary_lookups_after_rate(a) :
               ~key_present(r, self_consumption, cashflow)
    THEN "summary_key_error"
    ELSE "summary_rendered"

\* ------------------------------------------------------------------------
\* Input surface: the parameter values the evaluations are run on
\* ------------------------------------------------------------------------
BatteryStep == 5

BatterySizes == {R(BatteryStep * k, 1) : k \in 0..MaxBattery}

Horizons == 1..MaxYears

EnergyArgs ==
    [e_realistic : {R(0, 1), R(1825, 1), R(10950, 1)},
     d_annual : {R(0, 1), R(1000, 1), R(4000, 1)},
     daytime_share : {R(0, 1), R(2, 5), R(1, 1)},
     battery_kwh : BatterySizes,
     ev_annual_kwh : {R(0, 1), R(1000, 1), R(10000, 1)},
     ev_solar_share : {R(3, 10), R(1, 1)}]

EnergyPoints ==
    {[e_realistic |-> R(3650, 1), d_annual |-> R(4000, 1),
      daytime_share |-> R(2, 5), battery_kwh |-> R(BatteryStep * MaxBattery, 1),
      ev_annual_kwh |-> R(0, 1), ev_solar_share |-> R(3, 10)],
     [e_realistic |-> R(10950, 1), d_annual |-> R(1000, 1),
      daytime_share |-> R(2, 5), battery_kwh |-> R(BatteryStep * MaxBattery, 1),
      ev_annual_kwh |-> R(1000, 1), ev_solar_share |-> R(3, 10)]}

\* the financing parameters of each payment method of the dashboard, and
\* of a direct call with both flags set
LoanParams ==
    [loan_term : 0..MaxTerm, loan_rate : {R(0, 1), R(25, 1), R(100, 1)},
     deposit_pct : {R(0, 1), R(50, 1), R(100, 1)}]

LeaseParams == [lease_term : 1..MaxTerm, monthly_lease : {R(0, 1), R(50, 1)}]

LoanDefaults ==
    [loan_term |-> MaxTerm, loan_rate |-> R(100, 1), deposit_pct |-> R(0, 1)]

LeaseDefaults == [lease_term |-> MaxTerm, monthly_lease |-> R(0, 1)]

FinancingArgs ==
    {[finance_mode |-> FALSE, lease_mode |-> FALSE] @@ LoanDefaults @@ LeaseDefaults}
    \cup {[finance_mode |-> TRUE, lease_mode |-> FALSE] @@ lp @@ LeaseDefaults
          : lp \in LoanParams}
    \cup {[finance_mode |-> FALSE, lease_mode |-> TRUE] @@ LoanDefaults @@ lp
          : lp \in LeaseParams}
    \cup {[finance_mode |-> TRUE, lease_mode |-> TRUE] @@ lp[1] @@ lp[2]
          : lp \in {q \in LoanParams \X LeaseParams :
                      /\ q[1].loan_rate = R(0, 1) /\ q[1].deposit_pct # R(50, 1)
                      /\ q[1].loan_term = 1}}

PricingArgs ==
    [pv_cost : {R(1500, 1)}, battery_cost : {R(500, 1)},
     grid_price_p : {R(20, 1)}, seg_price_p : {R(10, 1)},
     annual_growth : {R(0, 1), R(100, 1)}, discount_rate : {R(0, 1), R(25, 1)},
     include_battery : BOOLEAN, years : Horizons]

PricingPoints ==
    {p \in PricingArgs : p.annual_growth = R(0, 1) /\ p.discount_rate = R(25, 1)
                         /\ p.years = 2}

FinancingPoints == {f \in FinancingArgs : ~f.finance_mode /\ ~f.lease_mode}

InitArgs ==
    {e @@ p @@ f : e \in EnergyArgs, p \in PricingPoints, f \in FinancingPoints}
    \cup {e @@ p @@ f : e \in EnergyPoints, p \in PricingArgs, f \in FinancingArgs}

\* site and household parameters of an evaluation that starts from the
\* generation and demand models; "Cornwall", "Flat roof" and "Wood stove"
\* are keys that are not in the lookup tables
SiteArgs ==
    [kwp : {R(0, 1), R(4, 1)},
     location : DOMAIN REGION_CAPACITY_FACTOR \cup {"Cornwall"},
     orientation : DOMAIN ORIENTATION_FACTOR \cup {"Flat roof"},
     heating_type : DOMAIN HEATING_TYPES \cup {"Wood stove"},
     d_annual_base : {R(3500, 1)},
     has_ev : BOOLEAN,
     daily_miles : {R(30, 1)},
     home_charging_pct : {R(8, 10)}]

\* the financing of such an evaluation: purchase; the loan a quotation
\* may ask for runs over one year
SiteFinancing == {[f EXCEPT !.loan_term = 1] : f \in FinancingPoints}

\* the remaining parameters of such an evaluation: no battery, purchase
SiteEngineArgs ==
    {[daytime_share |-> R(40, 100), battery_kwh |-> R(0, 1),
      ev_solar_share |-> R(3, 10),
      pv_cost |-> R(6000, 1), battery_cost |-> R(4000, 1),
      grid_price_p |-> R(28, 1), seg_price_p |-> R(15, 1),
      annual_growth |-> R(0, 1), discount_rate |-> R(0, 1),
      include_battery |-> FALSE, years |-> MaxYears] @@ f : f \in SiteFinancing}

\* app.py 1241-1288: the scenarios of the dashboard's batch
DashboardScenarios ==
    [finance_mode : BOOLEAN, lease_mode : BOOLEAN, has_ev : BOOLEAN]
    \ {sc \in [finance_mode : BOOLEAN, lease_mode : BOOLEAN, has_ev : BOOLEAN] :
         sc.finance_mode /\ sc.lease_mode}

\* quotation.py 721-752: the scenarios of generate_sample_quotations
SampleScenarios == [finance_mode : BOOLEAN, has_ev : BOOLEAN]

\* ------------------------------------------------------------------------
\* State
\* ------------------------------------------------------------------------
VARIABLES
    args,               \* the parameter set of the current evaluation
    pc,                 \* "site", "generation", "start", "balance", "financials",
                        \* "loop", "done", "quoted", "error" or "key_error"
    quotation,          \* <<>>, or the outcome of a generate_quotation_pdf call
    self_consumption,   \* <<>> or <<dict of calculate_self_consumption>>
    loc,                \* <<>> or <<locals of calculate_multi_year_cashflow>>
    result,             \* <<>> or <<dict of calculate_multi_year_cashflow>>
    prev,               \* <<>> or <<the previous completed evaluation>>
    site,               \* <<>> or <<site and household parameters>>
    household,          \* <<>> or <<adjusted household and EV demand>>
    generation,         \* <<>> or <<generation dict and monthly profiles>>
    financials          \* <<>> or <<year-1 financials without and with battery>>

vars == <<args, pc, self_consumption, loc, result, prev, site, household,
          generation, financials, quotation>>

\* an evaluation either calls the engine on given generation and demand
\* figures, or starts from the site and household parameters
Init ==
    /\ \/ /\ args \in InitArgs
          /\ pc = "start"
          /\ site = <<>>
       \/ /\ args \in SiteEngineArgs
          /\ pc = "site"
          /\ \E c \in SiteArgs : site = <<c>>
    /\ household = <<>>
    /\ generation = <<>>
    /\ financials = <<>>
    /\ self_consumption = <<>>
    /\ loc = <<>>
    /\ result = <<>>
    /\ prev = <<>>
    /\ quotation = <<>>

\* app.py 714-750 / quotation.py 310-316: household demand adjusted for the
\* heating type, and the EV charging demand if an EV is modelled
HouseholdDemand ==
    /\ pc = "site"
    /\ LET c == site[1]
       IN  household' =
             <<[d_annual |-> adjust_consumption_for_heating(c.d_annual_base,
                                                            c.heating_type),
                ev_annual_kwh |->
                    IF c.has_ev
                    THEN calculate_ev_consumption(c.daily_miles,
                                                  c.home_charging_pct).annual_kwh
                    ELSE Zero]>>
    /\ pc' = "generation"
    /\ UNCHANGED <<quotation, args, self_consumption, loc, result, prev, site, generation,
                   financials>>

\* app.py 771-773: generation and the monthly profiles; a key that is not
\* in the lookup tables of calculate_generation raises KeyError
Generation ==
    /\ pc = "generation"
    /\ LET c == site[1]
           h == household[1]
       IN  IF generation_raises(c.location, c.orientation)
           THEN /\ pc' = "key_error"
                /\ generation' = <<>>
                /\ args' = args
           ELSE LET g == calculate_generation(c.kwp, c.location, c.orientation)
                IN  /\ pc' = "start"
                    /\ generation' =
                         <<[generation |-> g,
                            monthly_gen |-> calculate_monthly_generation(g.realistic),
                            monthly_cons |->
                                calculate_monthly_consumption(h.d_annual,
                                                              c.heating_type)]>>
                    /\ args' = args @@ [e_realistic |-> g.realistic,
                                        d_annual |-> h.d_annual,
                                        ev_annual_kwh |-> h.ev_annual_kwh]
    /\ UNCHANGED <<quotation, self_consumption, loc, result, prev, site, household,
                   financials>>

\* app.py 775-778 / quotation.py 320-323: the energy balance is computed
SelfConsumption ==
    /\ pc = "start"
    /\ self_consumption' =
          <<calculate_self_consumption(args.e_realistic, args.d_annual,
                                       args.daytime_share, args.battery_kwh,
                                       args.ev_annual_kwh, args.ev_solar_share)>>
    /\ pc' = "balance"
    /\ UNCHANGED <<quotation, args, loc, result, prev, site, household, generation,
                   financials>>

\* app.py 780-796: year-1 financials without and with battery
AnnualFinancials ==
    /\ pc = "balance"
    /\ LET sc == self_consumption[1]
       IN  financials' =
             <<[no_batt |->
                  calculate_annual_financials(sc.total_demand,
                                              sc.grid_import_no_batt,
                                              sc.e_export_no_batt,
                                              args.grid_price_p, args.seg_price_p),
                batt |->
                  calculate_annual_financials(sc.total_demand,
                                              sc.grid_import_with_batt,
                                              sc.e_export_batt,
                                              args.grid_price_p, args.seg_price_p)]>>
    /\ pc' = "financials"
    /\ UNCHANGED <<quotation, args, self_consumption, loc, result, prev, site, household,
                   generation>>

\* variant: the call takes the values it selects out of the record it is
\* given
CashflowSetup_consuming_record ==
    /\ pc = "financials"
    /\ LET sc == self_consumption[1]
           a == [args EXCEPT !.d_annual = sc.total_demand]
       IN  /\ IF financing_raises(args, select_balance(args, sc).install_cost)
              THEN /\ pc' = "error"
                   /\ loc' = <<>>
              ELSE /\ pc' = "loop"
                   /\ loc' = <<cashflow_locals(a, sc)>>
           /\ self_consumption' =
                 <<IF args.include_battery
                   THEN [sc EXCEPT !.grid_import_with_batt = Zero,
                                   !.e_export_batt = Zero]
                   ELSE [sc EXCEPT !.grid_import_no_batt = Zero,
                                   !.e_export_no_batt = Zero]>>
    /\ UNCHANGED <<quotation, args, result, prev, site, household,
                   generation, financials>>

\* utils.py 219-258: the cashflow call up to the loop; total_demand is
\* passed as d_annual (app.py 798-799)
CashflowSetup ==
    /\ pc = "financials"
    /\ LET sc == self_consumption[1]
           a == [args EXCEPT !.d_annual = sc.total_demand]
       IN  IF financing_raises(args, select_balance(args, sc).install_cost)
           THEN /\ pc' = "error"
                /\ loc' = <<>>
           ELSE /\ pc' = "loop"
                /\ loc' = <<cashflow_locals(a, sc)>>
    /\ UNCHANGED <<quotation, args, self_consumption, result, prev, site, household,
                   generation, financials>>

\* utils.py 260-285: one iteration of the loop over the years
CashflowYear ==
    /\ pc = "loop"
    /\ loc[1].t <= args.years
    /\ loc' = <<cashflow_year(args, loc[1])>>
    /\ UNCHANGED <<quotation, args, pc, self_consumption, result, prev, site, household,
                   generation, financials>>

\* utils.py 287-317: payback, NPV and the returned dict
CashflowFinish ==
    /\ pc = "loop"
    /\ loc[1].t > args.years
    /\ result' = <<cashflow_result(args, loc[1])>>
    /\ pc' = "done"
    /\ UNCHANGED <<quotation, args, self_consumption, loc, prev, site, household,
                   generation, financials>>

\* the completed evaluation, kept when an input changes
completed == [args |-> args, self_consumption |-> self_consumption[1],
              result |-> result[1]]

\* app.py 519-551: a larger battery is selected and the script reruns; one
\* change of input is followed from each first evaluation
ChangeBattery ==
    /\ pc = "done"
    /\ prev = <<>>
    /\ \E b \in BatterySizes :
          /\ RLt(args.battery_kwh, b)
          /\ args' = [args EXCEPT !.battery_kwh = b]
    /\ prev' = <<completed>>
    /\ pc' = "start"
    /\ self_consumption' = <<>>
    /\ financials' = <<>>
    /\ loc' = <<>>
    /\ result' = <<>>
    /\ UNCHANGED <<quotation, site, household, generation>>

\* app.py 760-763: a longer time horizon is selected and the script reruns
ChangeYears ==
    /\ pc = "done"
    /\ prev = <<>>
    /\ \E y \in Horizons :
          /\ y > args.years
          /\ args' = [args EXCEPT !.years = y]
    /\ prev' = <<completed>>
    /\ pc' = "start"
    /\ self_consumption' = <<>>
    /\ financials' = <<>>
    /\ loc' = <<>>
    /\ result' = <<>>
    /\ UNCHANGED <<quotation, site, household, generation>>

\* app.py 798-822: the projection of the other balance (battery on for
\* battery off, and the reverse) is computed from the same energy-balance
\* record
ProjectOtherBalance ==
    /\ pc = "done"
    /\ prev = <<>>
    /\ args' = [args EXCEPT !.include_battery = ~@]
    /\ prev' = <<completed>>
    /\ pc' = "financials"
    /\ loc' = <<>>
    /\ result' = <<>>
    /\ UNCHANGED <<quotation, self_consumption, financials, site, household,
                   generation>>

\* app.py 1290-1332: the dashboard generates the quotation of a scenario of
\* the batch from the current settings
GenerateQuotation ==
    /\ pc = "done"
    /\ site # <<>>
    /\ \E scenario \in DashboardScenarios :
          quotation' =
              <<[caller |-> "dashboard", scenario |-> scenario]
                @@ quotation_call(DashboardKeywords,
                                  scenario @@ site[1] @@ args)>>
    /\ pc' = "quoted"
    /\ UNCHANGED <<args, self_consumption, loc, result, prev, site, household,
                   generation, financials>>

\* quotation.py 698-770: generate_sample_quotations calls
\* generate_quotation_pdf with the parameters of a scenario by name
GenerateSampleQuotation ==
    /\ pc = "done"
    /\ site # <<>>
    /\ \E scenario \in SampleScenarios :
          quotation' =
              <<[caller |-> "sample", scenario |-> scenario]
                @@ quotation_call(SampleKeywords(scenario),
                                  scenario @@ site[1] @@ args)>>
    /\ pc' = "quoted"
    /\ UNCHANGED <<args, self_consumption, loc, result, prev, site, household,
                   generation, financials>>

\* app.py 824-1153: the summary of the evaluation is rendered from the
\* energy-balance record and the projection; both projections of the
\* dashboard return the same fields
RenderSummary ==
    /\ pc = "done"
    /\ pc' = render_summary(args, self_consumption[1], result[1])
    /\ UNCHANGED <<quotation, args, self_consumption, loc, result, prev, site,
                   household, generation, financials>>

Next ==
    \/ HouseholdDemand
    \/ Generation
    \/ SelfConsumption
    \/ AnnualFinancials
    \/ CashflowSetup
    \/ CashflowYear
    \/ CashflowFinish
    \/ ChangeBattery
    \/ ChangeYears
    \/ ProjectOtherBalance
    \/ GenerateQuotation
    \/ GenerateSampleQuotation
    \/ RenderSummary

Spec == Init /\ [][Next]_vars

\* ------------------------------------------------------------------------
\* Properties of the energy balance
\* ------------------------------------------------------------------------
balanced == self_consumption # <<>>

\* the previous evaluation differs from the current one in the battery only
battery_changed ==
    /\ prev # <<>>
    /\ balanced
    /\ prev[1].args = [args EXCEPT !.battery_kwh = prev[1].args.battery_kwh]
    /\ RLe(prev[1].args.battery_kwh, args.battery_kwh)

\* the annual exportable surplus e_realistic - e_self_direct (line 113)
annual_surplus == RSub(args.e_realistic, self_consumption[1].e_self_direct)

\* C1: without battery the allocation conserves energy: direct
\* self-consumption plus export is the generation, and direct
\* self-consumption plus grid import is the total demand d_annual + EV.
C1_NoBatteryConservation ==
    balanced =>
        LET s == self_consumption[1]
        IN  /\ s.total_demand = RAdd(args.d_annual, args.ev_annual_kwh)
            /\ RAdd(s.e_self_direct, s.e_export_no_batt) = args.e_realistic
            /\ RAdd(s.e_self_direct, s.grid_import_no_batt) = s.total_demand

\* C1 witness: a balance with EV demand where generation is split between
\* direct use and export and demand between direct use and grid import
C1_Witness ==
    /\ balanced
    /\ RLt(Zero, args.ev_annual_kwh)
    /\ RLt(Zero, self_consumption[1].e_self_direct)
    /\ RLt(Zero, self_consumption[1].e_export_no_batt)
    /\ RLt(Zero, self_consumption[1].grid_import_no_batt)

\* C2: with battery the allocation conserves energy for every EV solar
\* share in [0,1]: direct plus battery self-consumption plus export is the
\* generation, and direct plus battery self-consumption plus grid import is
\* the total demand.
C2_BatteryConservation ==
    balanced =>
        LET s == self_consumption[1]
        IN  /\ RAdd(RAdd(s.e_self_direct, s.e_self_batt), s.e_export_batt)
                 = args.e_realistic
            /\ RAdd(RAdd(s.e_self_direct, s.e_self_batt), s.grid_import_with_batt)
                 = s.total_demand

\* C3: with battery_kwh = 0 the battery terms are zero and the totals with
\* battery equal the totals without, also when there is EV demand.
C3_ZeroBatteryNoBatteryTerms ==
    (balanced /\ args.battery_kwh = Zero) =>
        LET s == self_consumption[1]
        IN  /\ s.e_self_batt = Zero
            /\ s.ev_from_solar = Zero
            /\ s.e_export_batt = s.e_export_no_batt
            /\ s.grid_import_with_batt = s.grid_import_no_batt

\* C4: of two battery sizes b1 <= b2, both at most the daily exportable
\* surplus, the larger never has less battery self-consumption nor more
\* grid import, all other inputs being equal.
C4_BatteryMonotone ==
    (/\ battery_changed
     /\ RLe(RMul(args.battery_kwh, R(DAYS_PER_YEAR, 1)), annual_surplus)) =>
        LET s1 == prev[1].self_consumption
            s2 == self_consumption[1]
        IN  /\ RLe(s1.e_self_batt, s2.e_self_batt)
            /\ RLe(s2.grid_import_with_batt, s1.grid_import_with_batt)

\* ------------------------------------------------------------------------
\* Properties of the multi-year cashflow
\* ------------------------------------------------------------------------
projected == pc = "done"

\* the financing variant of the evaluation
Purchase == ~args.finance_mode /\ ~args.lease_mode

Loan == args.finance_mode /\ ~args.lease_mode

Lease == args.lease_mode /\ ~args.finance_mode

\* sum over t of benefits[t] / (1 + rate/100)^t, from year t on
RECURSIVE present_value(_, _, _)
present_value(benefits, rate, t) ==
    IF t > Len(benefits) THEN Zero
    ELSE RAdd(RDiv(benefits[t], RPow(RAdd(One, RDiv(rate, Hundred)), t)),
              present_value(benefits, rate, t + 1))

\* the payment due in year t under the financing variant
payment_due(t) ==
    IF Loan /\ t <= args.loan_term THEN result[1].annual_loan_payment
    ELSE IF Lease /\ t <= args.lease_term THEN RMul(args.monthly_lease, R(12, 1))
    ELSE Zero

\* the seed of the cumulative cashflow under the financing variant
seed ==
    IF Purchase THEN RNeg(result[1].install_cost)
    ELSE IF Loan THEN RNeg(result[1].deposit_amount)
    ELSE Zero

\* the previous evaluation differs from the current one in the horizon only
horizon_extended ==
    /\ prev # <<>>
    /\ projected
    /\ prev[1].args = [args EXCEPT !.years = prev[1].args.years]
    /\ prev[1].args.years <= args.years

\* C5: in Purchase mode the NPV is -install_cost plus the discounted yearly
\* net benefits, i.e. net of the upfront cost.
C5_PurchaseNpvNetOfCost ==
    (projected /\ Purchase) =>
        result[1].npv =
            RAdd(RNeg(result[1].install_cost),
                 present_value(result[1].annual_net_benefit, args.discount_rate, 1))

\* C6: in Loan mode the NPV is -deposit_amount plus the discounted yearly net
\* benefits, in Lease mode it is the discounted yearly net benefits alone;
\* the net benefits are those after the payment of the year.
C6_LoanLeaseNpv ==
    (projected /\ (Loan \/ Lease)) =>
        LET r == result[1]
        IN  /\ \A t \in 1..args.years :
                 r.annual_net_benefit[t] = RSub(r.annual_savings[t], payment_due(t))
            /\ Loan => r.npv = RAdd(RNeg(r.deposit_amount),
                                    present_value(r.annual_net_benefit,
                                                  args.discount_rate, 1))
            /\ Lease => r.npv = present_value(r.annual_net_benefit,
                                              args.discount_rate, 1)

\* C6 witness: a discounted loan projection with a deposit and payments due
C6_Witness ==
    /\ projected /\ Loan
    /\ RLt(Zero, result[1].deposit_amount)
    /\ RLt(Zero, result[1].annual_loan_payment)
    /\ args.loan_term >= 1 /\ args.years >= 2
    /\ args.discount_rate # Zero

\* C7: payback_years is the smallest year with a non-negative cumulative
\* cashflow, every earlier year being negative, and None when the horizon
\* has no such year.
C7_PaybackSmallestYear ==
    projected =>
        LET cum == result[1].cumulative_cashflow
            p == result[1].payback_years
        IN  IF \E t \in 1..args.years : RLe(Zero, cum[t])
            THEN /\ p # <<>>
                 /\ p[1] \in 1..args.years
                 /\ RLe(Zero, cum[p[1]])
                 /\ \A u \in 1..(p[1] - 1) : RLt(cum[u], Zero)
            ELSE p = <<>>

\* C7 witness: payback after the first year and before the last one
C7_Witness ==
    /\ projected
    /\ result[1].payback_years # <<>>
    /\ result[1].payback_years[1] > 1
    /\ result[1].payback_years[1] < args.years

\* C8: the cumulative cashflow is the running sum of the net benefits from
\* the seed of the variant (-install_cost, -deposit_amount, 0), and each of
\* the three lists has exactly `years` entries.
C8_RunningSumFromSeed ==
    (projected /\ (Purchase \/ Loan \/ Lease)) =>
        LET r == result[1]
        IN  /\ Len(r.annual_savings) = args.years
            /\ Len(r.annual_net_benefit) = args.years
            /\ Len(r.cumulative_cashflow) = args.years
            /\ r.cumulative_cashflow[1] = RAdd(seed, r.annual_net_benefit[1])
            /\ \A t \in 2..args.years :
                 r.cumulative_cashflow[t] =
                     RAdd(r.cumulative_cashflow[t - 1], r.annual_net_benefit[t])

\* C8 witness: a loan projection over several years with a partial deposit
C8_Witness ==
    /\ projected /\ Loan
    /\ args.years >= 2
    /\ RLt(Zero, result[1].deposit_amount)
    /\ RLt(result[1].deposit_amount, result[1].install_cost)

\* C9: a payback year at horizon `years` also exists, at the same or an
\* earlier year, at every longer horizon, and the first `years` entries of
\* the three lists are the same in both projections.
C9_PaybackAcrossHorizons ==
    horizon_extended =>
        LET r1 == prev[1].result
            r2 == result[1]
            y1 == prev[1].args.years
        IN  /\ r1.payback_years # <<>> =>
                 /\ r2.payback_years # <<>>
                 /\ r2.payback_years[1] <= r1.payback_years[1]
            /\ SubSeq(r2.annual_savings, 1, y1) = r1.annual_savings
            /\ SubSeq(r2.annual_net_benefit, 1, y1) = r1.annual_net_benefit
            /\ SubSeq(r2.cumulative_cashflow, 1, y1) = r1.cumulative_cashflow

\* C9 witness: a projection with payback, evaluated again at a longer
\* horizon under growing prices
C9_Witness ==
    /\ horizon_extended
    /\ prev[1].args.years < args.years
    /\ prev[1].result.payback_years # <<>>
    /\ args.annual_growth # Zero

\* C10: the financing payment is subtracted from the saving in the years of
\* the term only: the loan payment for t <= loan_term, the lease payment
\* monthly_lease * 12 for t <= lease_term, nothing in Purchase mode.
C10_PaymentsInsideTerm ==
    (projected /\ (Purchase \/ Loan \/ Lease)) =>
        LET r == result[1]
        IN  \A t \in 1..args.years :
              /\ Purchase => r.annual_net_benefit[t] = r.annual_savings[t]
              /\ Loan => r.annual_net_benefit[t] =
                            IF t <= args.loan_term
                            THEN RSub(r.annual_savings[t], r.annual_loan_payment)
                            ELSE r.annual_savings[t]
              /\ Lease => /\ r.annual_lease_payment = RMul(args.monthly_lease, R(12, 1))
                          /\ r.annual_net_benefit[t] =
                               IF t <= args.lease_term
                               THEN RSub(r.annual_savings[t], r.annual_lease_payment)
                               ELSE r.annual_savings[t]

\* C10 witness: a loan projection that runs past the end of the term
C10_Witness ==
    /\ projected /\ Loan
    /\ RLt(Zero, result[1].annual_loan_payment)
    /\ args.loan_term >= 1
    /\ args.loan_term < args.years

\* ------------------------------------------------------------------------
\* Properties of the loan payment
\* ------------------------------------------------------------------------
\* the cashflow call is past the financing block (lines 230-245)
financed == loc # <<>>

\* the loan branch of line 240 was taken
loan_taken == financed /\ args.finance_mode /\ RLt(Zero, loc[1].loan_amount)

\* the balance left after k years of a loan: each year the balance grows by
\* the interest and is reduced by the payment
RECURSIVE loan_balance(_, _, _, _)
loan_balance(balance, annual_rate, payment, k) ==
    IF k = 0 THEN balance
    ELSE loan_balance(RSub(RMul(balance, RAdd(One, RDiv(annual_rate, Hundred))),
                           payment),
                      annual_rate, payment, k - 1)

\* C11: for rate > 0 and term n >= 1 the payment of calculate_loan_payment
\* repays the loan exactly: the balance is zero after n payments.
C11_AmortizationRepays ==
    (loan_taken /\ RLt(Zero, args.loan_rate) /\ args.loan_term >= 1) =>
        loan_balance(loc[1].loan_amount, args.loan_rate,
                     loc[1].annual_loan_payment, args.loan_term) = Zero

\* C11 witness: a loan over several years at a rate other than 100%
C11_Witness ==
    /\ loan_taken
    /\ RLt(Zero, args.loan_rate) /\ RLt(args.loan_rate, Hundred)
    /\ args.loan_term >= 2
    /\ RLt(loc[1].loan_amount, loc[1].install_cost)

\* ------------------------------------------------------------------------
\* Properties of the lookups by key
\* ------------------------------------------------------------------------
\* the site asks for a region or an orientation outside the lookup tables
site_key_invalid ==
    site # <<>> /\ generation_raises(site[1].location, site[1].orientation)

\* the site asks for a heating type outside HEATING_TYPES
heating_key_invalid ==
    site # <<>> /\ site[1].heating_type \notin DOMAIN HEATING_TYPES

\* C12: no default is substituted for an invalid key: with a region or an
\* orientation outside the tables calculate_generation returns nothing, and
\* with a heating type outside HEATING_TYPES neither
\* adjust_consumption_for_heating nor calculate_monthly_consumption returns
\* a number.
C12_InvalidKeyRaises ==
    /\ site_key_invalid => generation = <<>>
    /\ heating_key_invalid => (household = <<>> /\ generation = <<>>)

\* ------------------------------------------------------------------------
\* Properties of the quantities of the energy balance
\* ------------------------------------------------------------------------
\* C13: with no generation (e_realistic = 0) the balance has no solar term:
\* direct and battery self-consumption and both exports are zero, both
\* grid imports equal the total demand and the EV is charged from the grid
\* only, for every battery size and demand.
C13_ZeroGenerationAllGrid ==
    (balanced /\ args.e_realistic = Zero) =>
        LET sc == self_consumption[1]
        IN  /\ sc.e_self_direct = Zero
            /\ sc.e_self_batt = Zero
            /\ sc.e_export_no_batt = Zero
            /\ sc.e_export_batt = Zero
            /\ sc.grid_import_no_batt = sc.total_demand
            /\ sc.grid_import_with_batt = sc.total_demand
            /\ sc.ev_from_grid = args.ev_annual_kwh

\* C13 witness: no generation, with a battery, a household demand and an EV
C13_Witness ==
    /\ balanced /\ args.e_realistic = Zero
    /\ RLt(Zero, args.battery_kwh)
    /\ RLt(Zero, args.d_annual)
    /\ RLt(Zero, args.ev_annual_kwh)

\* C15: every quantity calculate_self_consumption returns is >= 0.
C15_QuantitiesNonNegative ==
    balanced =>
        LET sc == self_consumption[1]
        IN  /\ RLe(Zero, sc.e_self_direct)
            /\ RLe(Zero, sc.e_export_no_batt)
            /\ RLe(Zero, sc.grid_import_no_batt)
            /\ RLe(Zero, sc.e_self_batt)
            /\ RLe(Zero, sc.e_export_batt)
            /\ RLe(Zero, sc.grid_import_with_batt)
            /\ RLe(Zero, sc.ev_from_solar)
            /\ RLe(Zero, sc.ev_from_grid)

\* C15 witness: the solar energy credited to the home exceeds the total
\* demand, so the grid import with battery rests on its floor
C15_Witness ==
    /\ balanced
    /\ RLt(self_consumption[1].total_demand,
           RAdd(self_consumption[1].e_self_direct, self_consumption[1].e_self_batt))
    /\ self_consumption[1].grid_import_with_batt = Zero

\* ------------------------------------------------------------------------
\* Properties of the generation and of the annual financials
\* ------------------------------------------------------------------------
\* calculate_generation has returned for the site
generated == generation # <<>>

\* C14: for kWp > 0 and every region and orientation of the tables the
\* realistic output is strictly below the theoretical one, the capacity
\* factor is the product of the two table factors and kwh_per_kwp is the
\* realistic output per kWp.
C14_CapacityFactorBound ==
    (generated /\ RLt(Zero, site[1].kwp)) =>
        LET g == generation[1].generation
        IN  /\ RLt(g.realistic, g.theoretical)
            /\ g.capacity_factor =
                   RMul(REGION_CAPACITY_FACTOR[site[1].location],
                        ORIENTATION_FACTOR[site[1].orientation])
            /\ g.realistic = RMul(g.theoretical, g.capacity_factor)
            /\ g.kwh_per_kwp = RDiv(g.realistic, site[1].kwp)

\* C14 witness: a site of 4 kWp in the region and orientation with the
\* highest factors
C14_Witness ==
    /\ generated
    /\ site[1].kwp = R(4, 1)
    /\ site[1].location = "South England"
    /\ site[1].orientation = "Ideal (South)"
    /\ RLt(Zero, generation[1].generation.realistic)

\* |x - y| <= 1
within_one(x, y) == RLe(RSub(x, y), One) /\ RLe(RSub(y, x), One)

\* the worked scenario: 4 kWp, South England, ideal orientation, no battery,
\* 3500 kWh with a gas/oil boiler, no EV, daytime share 0.40, 28p and 15p
worked_scenario ==
    /\ site # <<>>
    /\ site[1].kwp = R(4, 1)
    /\ site[1].location = "South England"
    /\ site[1].orientation = "Ideal (South)"
    /\ site[1].heating_type = "Gas/Oil boiler"
    /\ site[1].d_annual_base = R(3500, 1)
    /\ ~site[1].has_ev
    /\ args.battery_kwh = Zero
    /\ args.daytime_share = R(40, 100)
    /\ args.grid_price_p = R(28, 1)
    /\ args.seg_price_p = R(15, 1)

\* C17: in the worked scenario theoretical = 35040, realistic = 4555.2,
\* direct self-consumption ~ 1120.4, export ~ 3434.8, grid import ~ 2379.6
\* and net saving ~ 828.9, each within 1 unit.
C17_WorkedScenario ==
    (worked_scenario /\ financials # <<>>) =>
        /\ generation[1].generation.theoretical = R(35040, 1)
        /\ generation[1].generation.realistic = R(45552, 10)
        /\ within_one(self_consumption[1].e_self_direct, R(11204, 10))
        /\ within_one(self_consumption[1].e_export_no_batt, R(34348, 10))
        /\ within_one(self_consumption[1].grid_import_no_batt, R(23796, 10))
        /\ within_one(financials[1].no_batt.net_saving, R(8289, 10))

\* C17 witness: the worked scenario has been evaluated up to the financials
C17_Witness ==
    /\ worked_scenario
    /\ financials # <<>>
    /\ self_consumption[1].total_demand = R(3500, 1)

\* ------------------------------------------------------------------------
\* Properties of the yearly savings and of the loan figures
\* ------------------------------------------------------------------------
\* the year-1 figures of calculate_annual_financials for the balance that
\* include_battery selects
selected_financials ==
    IF args.include_battery THEN financials[1].batt ELSE financials[1].no_batt

\* the net saving calculate_annual_financials returns for the selected
\* balance at the import price of year t
saving_at_escalated_price(t) ==
    LET sc == self_consumption[1]
        price_t == RMul(args.grid_price_p,
                        RPow(RAdd(One, RDiv(args.annual_growth, Hundred)), t))
    IN  calculate_annual_financials(
            sc.total_demand,
            IF args.include_battery THEN sc.grid_import_with_batt
            ELSE sc.grid_import_no_batt,
            IF args.include_battery THEN sc.e_export_batt
            ELSE sc.e_export_no_batt,
            price_t, args.seg_price_p).net_saving

\* C18: annual_savings of year t is the net saving of
\* calculate_annual_financials for the balance selected by include_battery,
\* at the import price escalated to year t and the unchanged export price;
\* with zero growth every year's saving is the year-1 figure.
C18_SavingsMatchAnnualFinancials ==
    projected =>
        \A t \in 1..args.years :
            /\ result[1].annual_savings[t] = saving_at_escalated_price(t)
            /\ args.annual_growth = Zero =>
                   result[1].annual_savings[t] = selected_financials.net_saving

\* C18 witness: a projection with battery and growth over several years, the
\* battery changing the balance
C18_Witness ==
    /\ projected
    /\ args.include_battery
    /\ args.years >= 2
    /\ RLt(Zero, args.annual_growth)
    /\ financials[1].batt.net_saving # financials[1].no_batt.net_saving
    /\ RLt(Zero, self_consumption[1].e_export_batt)

\* C19: the loan figures are consistent: in Loan mode the deposit is
\* install_cost * deposit_pct / 100, deposit and loan add up to the install
\* cost and total_interest is payment * loan_term - loan_amount (0 without a
\* loan); in Purchase and Lease mode the four figures are 0.
C19_LoanFiguresConsistent ==
    projected =>
        LET r == result[1]
        IN  /\ Loan =>
                /\ r.deposit_amount =
                       RDiv(RMul(r.install_cost, args.deposit_pct), Hundred)
                /\ RAdd(r.deposit_amount, r.loan_amount) = r.install_cost
                /\ r.total_interest =
                       IF r.loan_amount = Zero THEN Zero
                       ELSE RSub(RMul(r.annual_loan_payment, R(args.loan_term, 1)),
                                 r.loan_amount)
            /\ (Purchase \/ Lease) =>
                /\ r.deposit_amount = Zero
                /\ r.loan_amount = Zero
                /\ r.annual_loan_payment = Zero
                /\ r.total_interest = Zero

\* C19 witness: a loan with a part deposit that costs interest
C19_Witness ==
    /\ projected /\ Loan
    /\ RLt(Zero, result[1].deposit_amount)
    /\ RLt(Zero, result[1].loan_amount)
    /\ RLt(Zero, result[1].total_interest)

\* the payments subtracted from the savings in the years t..Len
RECURSIVE payments_subtracted(_, _)
payments_subtracted(r, t) ==
    IF t > Len(r.annual_savings) THEN Zero
    ELSE RAdd(RSub(r.annual_savings[t], r.annual_net_benefit[t]),
              payments_subtracted(r, t + 1))

\* C20: a loan at rate 0 over n >= 1 years is paid in n equal parts of
\* loan_amount / n, costs no interest, and over a horizon of at least n
\* years the payments subtracted add up to loan_amount.
C20_ZeroRateLoan ==
    (loan_taken /\ args.loan_rate = Zero /\ args.loan_term >= 1) =>
        /\ loc[1].annual_loan_payment =
               RDiv(loc[1].loan_amount, R(args.loan_term, 1))
        /\ loc[1].total_interest = Zero
        /\ (projected /\ args.years >= args.loan_term) =>
               payments_subtracted(result[1], 1) = result[1].loan_amount

\* C20 witness: a zero-rate loan over two years or more, projected to the
\* end of its term
C20_Witness ==
    /\ loan_taken /\ projected
    /\ args.loan_rate = Zero
    /\ args.loan_term >= 2
    /\ args.years >= args.loan_term
    /\ RLt(Zero, result[1].annual_loan_payment)

\* ------------------------------------------------------------------------
\* Properties of the financing variant of a projection
\* ------------------------------------------------------------------------
\* the value the cumulative cashflow started from (lines 252-258)
starting_seed ==
    RSub(result[1].cumulative_cashflow[1], result[1].annual_net_benefit[1])

\* the payment subtracted in year t
payment_subtracted(t) ==
    RSub(result[1].annual_savings[t], result[1].annual_net_benefit[t])

\* the present value of the yearly net benefits
benefits_present_value ==
    present_value(result[1].annual_net_benefit, args.discount_rate, 1)

\* the projection is a Purchase throughout
purchase_throughout ==
    LET r == result[1]
    IN  /\ starting_seed = RNeg(r.install_cost)
        /\ \A t \in 1..args.years : payment_subtracted(t) = Zero
        /\ r.npv \in {benefits_present_value,
                      RSub(benefits_present_value, r.install_cost)}
        /\ r.annual_loan_payment = Zero /\ r.loan_term = 0
        /\ r.annual_lease_payment = Zero /\ r.lease_term = 0

\* the projection is a Loan throughout
loan_throughout ==
    LET r == result[1]
    IN  /\ starting_seed = RNeg(r.deposit_amount)
        /\ \A t \in 1..args.years :
              payment_subtracted(t) =
                  IF t <= r.loan_term THEN r.annual_loan_payment ELSE Zero
        /\ r.npv = RSub(benefits_present_value, r.deposit_amount)
        /\ r.annual_lease_payment = Zero /\ r.lease_term = 0

\* the projection is a Lease throughout
lease_throughout ==
    LET r == result[1]
    IN  /\ starting_seed = Zero
        /\ \A t \in 1..args.years :
              payment_subtracted(t) =
                  IF t <= r.lease_term THEN r.annual_lease_payment ELSE Zero
        /\ r.npv = benefits_present_value
        /\ r.annual_loan_payment = Zero /\ r.loan_term = 0

\* C16: one financing variant is active in every projection: the seed, the
\* payment of each year, the NPV adjustment and the reported payment and
\* term fields all belong to one of Purchase, Loan and Lease, for every
\* combination of the flags.
C16_OneVariantActive ==
    projected => (purchase_throughout \/ loan_throughout \/ lease_throughout)

\* ------------------------------------------------------------------------
\* Properties of a loan over no years
\* ------------------------------------------------------------------------
\* the arguments ask for a loan above zero (the condition of line 240)
loan_requested == args.finance_mode /\ RLt(args.deposit_pct, Hundred)

\* calculate_multi_year_cashflow has been called and is past line 245
cashflow_called == pc \in {"loop", "done", "error"}

heating_pairing(heating_type) ==
    CASE heating_type = "Gas/Oil boiler" ->
             [multiplier |-> One, profile |-> CONSUMPTION_PROFILE_GAS]
      [] heating_type = "Heat pump" ->
             [multiplier |-> R(15, 10), profile |-> CONSUMPTION_PROFILE_ELECTRIC]
      [] heating_type = "Electric resistive" ->
             [multiplier |-> R(25, 10), profile |-> CONSUMPTION_PROFILE_ELECTRIC]

\* a quotation document has been produced
quoted == quotation # <<>> /\ quotation[1].outcome = "pdf"

\* C22: for each of the three heating types the multiplier and the monthly
\* profile belong together on every path: the adjusted demand is the base
\* usage times the type's multiplier, the monthly consumption is that
\* demand spread by the type's profile, and the quotation's seasonal chart
\* uses the same demand and profile.
C22_MultiplierProfileConsistent ==
    (site # <<>> /\ site[1].heating_type \in DOMAIN HEATING_TYPES) =>
        LET pair == heating_pairing(site[1].heating_type)
            adjusted == RMul(site[1].d_annual_base, pair.multiplier)
        IN  /\ household # <<>> => household[1].d_annual = adjusted
            /\ generation # <<>> =>
                   \A i \in 1..12 :
                       generation[1].monthly_cons[i] = RMul(adjusted, pair.profile[i])
            /\ quoted =>
                   /\ quotation[1].d_annual = adjusted
                   /\ quotation[1].consumption_profile = pair.profile

\* C22 witness: a quotation produced for a home heated by a heat pump
C22_Witness ==
    /\ quoted
    /\ site[1].heating_type = "Heat pump"
    /\ generation[1].monthly_cons[1] = RMul(R(5250, 1), R(14, 100))

\* ------------------------------------------------------------------------
\* Properties of the battery allocation
\* ------------------------------------------------------------------------
\* the battery energy of the year for the balance computed (lines 112-116)
dispatched ==
    battery_dispatch(args.e_realistic, self_consumption[1].e_self_direct,
                     args.battery_kwh)

\* its allocation to the household and the EV (lines 118-130)
allocated ==
    battery_allocation(args.e_realistic, args.d_annual,
                       self_consumption[1].e_self_direct, dispatched.e_batt_annual,
                       args.ev_annual_kwh, args.ev_solar_share)

\* C23: battery energy is allocated in priority order and never
\* over-allocated: the annual battery energy is 365 * min(daily surplus,
\* battery_kwh); the household takes min(battery energy, remaining household
\* demand); the EV takes at most what remains and at most ev_annual_kwh *
\* ev_solar_share, so it gets battery energy only when the remaining
\* household demand is covered; household share + EV share <= battery
\* energy <= annual exportable surplus.
C23_BatteryPriority ==
    (balanced /\ pc = "balance") =>
        LET sc == self_consumption[1]
            remaining_household == RMax(Zero, RSub(args.d_annual, sc.e_self_direct))
            battery_energy == dispatched.e_batt_annual
            to_house == allocated.e_batt_to_house
            to_ev == allocated.ev_from_battery
        IN  /\ battery_energy =
                   RMul(R(DAYS_PER_YEAR, 1),
                        RMin(dispatched.e_surplus_daily, args.battery_kwh))
            /\ to_house = RMin(battery_energy, remaining_household)
            /\ RLe(Zero, to_ev)
            /\ RLe(to_ev, RSub(battery_energy, to_house))
            /\ RLe(to_ev, RMul(args.ev_annual_kwh, args.ev_solar_share))
            /\ RLt(Zero, to_ev) => to_house = remaining_household
            /\ RLe(RAdd(to_house, to_ev), battery_energy)
            /\ RLe(battery_energy, annual_surplus)
            /\ sc.e_self_batt = RAdd(RAdd(to_house, to_ev), allocated.ev_direct_solar)
            /\ sc.ev_from_solar = RAdd(to_ev, allocated.ev_direct_solar)

\* C23 witness: the battery covers the remaining household demand and
\* charges the EV from what is left, short of the EV's share
C23_Witness ==
    /\ balanced /\ pc = "balance"
    /\ RLt(Zero, allocated.e_batt_to_house)
    /\ RLt(Zero, allocated.ev_from_battery)
    /\ RLt(allocated.ev_from_battery, RMul(args.ev_annual_kwh, args.ev_solar_share))

\* ------------------------------------------------------------------------
\* Properties of the batch of quotations
\* ------------------------------------------------------------------------
\* the dashboard has called generate_quotation_pdf for a scenario
batch_called == quotation # <<>> /\ quotation[1].caller = "dashboard"

\* C24: for every scenario of the dashboard's batch the call of
\* generate_quotation_pdf completes and the document's cashflow is computed
\* with the scenario's financing variant: a lease scenario with lease_mode,
\* lease_term and monthly_lease.
C24_BatchQuotationByVariant ==
    batch_called =>
        /\ quotation[1].outcome = "pdf"
        /\ LET a == quotation[1].cashflow_args
               scenario == quotation[1].scenario
           IN  /\ a.finance_mode = scenario.finance_mode
               /\ a.lease_mode = scenario.lease_mode
               /\ scenario.lease_mode =>
                      /\ a.lease_term = args.lease_term
                      /\ a.monthly_lease = args.monthly_lease

\* ------------------------------------------------------------------------
\* Properties of the engine's effect on its inputs
\* ------------------------------------------------------------------------
\* the energy balance as calculate_self_consumption returns it for the
\* arguments of the evaluation
balance_as_returned ==
    calculate_self_consumption(args.e_realistic, args.d_annual,
                               args.daytime_share, args.battery_kwh,
                               args.ev_annual_kwh, args.ev_solar_share)

\* the projection the cashflow call gives for the arguments alone, from the
\* balance as returned
projection_alone ==
    calculate_multi_year_cashflow(
        [args EXCEPT !.d_annual = balance_as_returned.total_demand],
        balance_as_returned)

\* the other projection was computed before from the same record
second_projection ==
    /\ prev # <<>>
    /\ prev[1].args = [args EXCEPT !.include_battery = ~@]
    /\ cashflow_called

C26_MonthlyPreservesAnnual ==
    generated =>
        /\ site[1].heating_type \in DOMAIN HEATING_TYPES
              => RSum(generation[1].monthly_cons) = household[1].d_annual
        /\ RSum(generation[1].monthly_gen) = generation[1].generation.realistic

\* ------------------------------------------------------------------------
\* C27
\* ------------------------------------------------------------------------

\* the preconditions the projection's permanence is stated under: growth,
\* prices and export not negative, import not above the demand passed
permanence_inputs ==
    LET sel == select_balance(args, self_consumption[1])
    IN  /\ RLe(Zero, args.annual_growth)
        /\ RLe(Zero, args.grid_price_p)
        /\ RLe(Zero, args.seg_price_p)
        /\ RLe(Zero, sel.e_export)
        /\ RLe(sel.grid_import, self_consumption[1].total_demand)

\* every year from the reported payback year on has a cumulative cashflow
\* that is not negative
payback_kept ==
    LET p == result[1].payback_years
    IN  p # <<>> =>
            \A t \in p[1]..args.years : RLe(Zero, result[1].cumulative_cashflow[t])

\* C27: payback is permanent under non-negative price growth: when
\* annual_growth >= 0, prices and export are non-negative and grid_import
\* <= d_annual, then in every financing mode the cumulative cashflow is not
\* negative in any year at or after the reported payback year
C27_PaybackPermanent ==
    (projected /\ permanence_inputs /\ (Purchase \/ Loan \/ Lease)) => payback_kept

\* C27 witness: a financed projection that pays back after the first year,
\* while payments are still due, and is followed for at least one more year
C27_Witness ==
    /\ projected /\ permanence_inputs
    /\ Loan \/ Lease
    /\ result[1].payback_years # <<>>
    /\ result[1].payback_years[1] > 1
    /\ result[1].payback_years[1] < args.years
    /\ payment_due(result[1].payback_years[1]) # Zero
    /\ RLt(Zero, args.annual_growth)

\* ------------------------------------------------------------------------
\* C28
\* ------------------------------------------------------------------------

\* lines 135-136: neither max(0, .) of the totals with battery replaces a
\* negative difference by 0
with_battery_unclamped ==
    LET s == self_consumption[1]
    IN  /\ RLe(Zero, RSub(RSub(args.e_realistic, s.e_self_direct), s.e_self_batt))
        /\ RLe(Zero, RSub(RSub(s.total_demand, s.e_self_direct), s.e_self_batt))

\* C28: adding a battery never worsens the energy balance: the grid import
\* and the export with battery are not above the ones without, and both
\* reductions equal e_self_batt whenever neither value with battery is
\* clamped at 0
C28_BatteryNeverWorsens ==
    (balanced /\ pc = "balance") =>
        LET s == self_consumption[1]
        IN  /\ RLe(s.grid_import_with_batt, s.grid_import_no_batt)
            /\ RLe(s.e_export_batt, s.e_export_no_batt)
            /\ with_battery_unclamped =>
                  /\ RSub(s.grid_import_no_batt, s.grid_import_with_batt) = s.e_self_batt
                  /\ RSub(s.e_export_no_batt, s.e_export_batt) = s.e_self_batt

\* C28 witness: a battery that serves household and EV, with import and
\* export left over
C28_Witness ==
    /\ balanced /\ pc = "balance"
    /\ with_battery_unclamped
    /\ RLt(Zero, args.battery_kwh)
    /\ RLt(Zero, args.ev_annual_kwh)
    /\ RLt(self_consumption[1].ev_from_solar, self_consumption[1].e_self_batt)
    /\ RLt(Zero, self_consumption[1].ev_from_solar)
    /\ RLt(Zero, self_consumption[1].grid_import_with_batt)
    /\ RLt(Zero, self_consumption[1].e_export_batt)

\* ------------------------------------------------------------------------
\* C29
\* ------------------------------------------------------------------------

\* app.py 780-796: the year-1 financials of both balances are computed
priced == financials # <<>>

\* C29: the net saving of the balance with battery minus the net saving of
\* the balance without battery is e_self_batt * (grid_price - export_price)
\* / 100, so the battery raises the annual saving exactly when the import
\* price exceeds the export price and e_self_batt > 0
C29_BatterySavingDifference ==
    (priced /\ pc = "financials") =>
        LET s == self_consumption[1]
            difference == RSub(financials[1].batt.net_saving,
                               financials[1].no_batt.net_saving)
        IN  /\ difference
                 = RDiv(RMul(s.e_self_batt, RSub(args.grid_price_p, args.seg_price_p)),
                        Hundred)
            /\ RLt(Zero, difference)
                 <=> (RLt(args.seg_price_p, args.grid_price_p) /\ RLt(Zero, s.e_self_batt))

\* ------------------------------------------------------------------------
\* C30
\* ------------------------------------------------------------------------

\* the rendering of the summary has ended, with a page or an exception
summary_ended ==
    pc \in {"summary_rendered", "summary_key_error", "summary_zero_division"}

\* C30: every field the dashboard reads from the energy-balance and the
\* cashflow results is a field the engine returns: with and without
\* battery, for each payment method, each key looked up is present, so
\* rendering the summary never fails on a missing key
C30_SummaryFieldsReturned ==
    /\ projected =>
          \A r \in summary_lookups(args) :
              key_present(r, self_consumption[1], result[1])
    /\ summary_ended => pc # "summary_key_error"

====
